---- MODULE Spec2Model ----
(***************************************************************************)
(* Model of examples/Exp3_Import_SOFA.ipynb: a SOFA container is opened,   *)
(* the impulse responses of receivers 0 and 1, the source positions and    *)
(* the sampling rate are read, the container is closed, the angles are     *)
(* converted to radians / colatitude, two ArraySignals are assembled and   *)
(* saved as <filename>_L.npy and <filename>_R.npy.                         *)
(*                                                                         *)
(* One action per statement of the notebook's code cells.  A statement     *)
(* that raises stops the run (pc = "failed"); what was assigned before it  *)
(* stays assigned.                                                         *)
(*                                                                         *)
(* numpy arrays are records [shape, flat] with flat in C (row-major)       *)
(* order.  Angles in radians are exact rational multiples of pi, written   *)
(* <<num, den>> in lowest terms with den > 0.                              *)
(***************************************************************************)
EXTENDS Integers, Sequences, FiniteSets, TLC

VARIABLES container, pc, error, sofa_file, openCount, closeCount, reads,
          bound, HRIRs_l, HRIRs_r, Az, El, R, fs, azimuth, colatitude,
          grids, hrir_full_l, hrir_full_r, files

vars == <<container, pc, error, sofa_file, openCount, closeCount, reads,
          bound, HRIRs_l, HRIRs_r, Az, El, R, fs, azimuth, colatitude,
          grids, hrir_full_l, hrir_full_r, files>>

----------------------------------------------------------------------------
(* Bounds of the input containers *)

MaxEntities == 2

MaxReceivers == 3

MaxMeasurements == 2

MaxSamples == 2

----------------------------------------------------------------------------
(* Program constants *)

filename == "mit_kemar_large_pinna"

\* the 3 of np.hsplit(..., 3): azimuth, elevation, radius
ComponentCount == 3

\* the receiver index of HRIRs_l
LeftReceiver == 0

RightReceiverSame == LeftReceiver

\* the receiver index of HRIRs_r
RightReceiver == 1

----------------------------------------------------------------------------
(* numpy arrays *)

RECURSIVE Product(_)
Product(s) == IF s = <<>> THEN 1 ELSE Head(s) * Product(Tail(s))

NDArray(shape, flat) == [shape |-> shape, flat |-> flat]

\* the value of a name that is not bound yet
NoArray == NDArray(<<>>, <<>>)

NotOne(d) == d # 1

\* np.squeeze: every axis of length 1 is removed, the data is untouched
Squeeze(a) == NDArray(SelectSeq(a.shape, NotOne), a.flat)

\* var[:, r, :] of an (M, R, N) variable: shape (M, N)
SliceReceiver(ir, r) ==
    LET M == ir.shape[1]
        Rn == ir.shape[2]
        N == ir.shape[3]
    IN NDArray(<<M, N>>,
               [k \in 1..(M * N) |->
                   ir.flat[((k - 1) \div N) * Rn * N + r * N + ((k - 1) % N) + 1]])

\* np.hsplit(a, 3) of an (M, 3) array: three (M, 1) columns
HSplit(a) ==
    LET M == a.shape[1]
    IN [j \in 1..ComponentCount |->
           NDArray(<<M, 1>>, [m \in 1..M |-> a.flat[(m - 1) * ComponentCount + j]])]

\* np.asarray of a list of three equally shaped arrays: shape (3,) + shape
Stack(list) ==
    LET n == Len(list[1].flat)
    IN NDArray(<<ComponentCount>> \o list[1].shape,
               [k \in 1..(ComponentCount * n) |->
                   list[((k - 1) \div n) + 1].flat[((k - 1) % n) + 1]])

\* a[j] for j = 0, 1, 2, as iterated by the unpacking "Az, El, R = a"
Row(a, j) ==
    LET n == Product(Tail(a.shape))
    IN NDArray(Tail(a.shape), [k \in 1..n |-> a.flat[j * n + k]])

----------------------------------------------------------------------------
(* Exact arithmetic on multiples of pi: <<num, den>> stands for num/den * pi *)

Abs(x) == IF x < 0 THEN -x ELSE x

RECURSIVE GCD(_, _)
GCD(a, b) == IF b = 0 THEN a ELSE GCD(b, a % b)

Reduce(n, d) == LET g == GCD(Abs(n), d) IN <<n \div g, d \div g>>

DegToRadWrapped(x) == Reduce(x % 360, 180)

\* x / 180 * np.pi
DegToRad(x) == Reduce(x, 180)

\* np.pi / 2 - q
HalfPiMinus(q) == Reduce(q[2] - 2 * q[1], 2 * q[2])

\* El / 180 * np.pi, then np.pi / 2 - that
ElToColat(x) == HalfPiMinus(DegToRad(x))

\* the arithmetic of numpy arrays is elementwise and keeps the shape
AzimuthOf(a) == NDArray(a.shape, [k \in 1..Len(a.flat) |-> DegToRad(a.flat[k])])

ColatitudeOf(a) == NDArray(a.shape, [k \in 1..Len(a.flat) |-> ElToColat(a.flat[k])])

----------------------------------------------------------------------------
(* The input file *)

RequiredVars == {"ListenerPosition", "ReceiverPosition", "SourcePosition",
                 "EmitterPosition", "Data.IR", "Data.SamplingRate"}

\* (azimuth degrees, elevation degrees, radius in tenths of a meter)
PositionTable == << <<0, 90, 10>>, <<360, -90, 10>>, <<-30, 120, 14>>, <<90, 0, 15>> >>

Positions(offset, len) ==
    [m \in 1..len |-> PositionTable[((offset + m - 1) % Len(PositionTable)) + 1]]

NoFile == [exists |-> FALSE, vars |-> {}, I |-> 1, E |-> 1, R |-> 2, M |-> 1, N |-> 1,
           SP |-> <<>>]

Containers ==
    { [exists |-> TRUE, vars |-> vs, I |-> i, E |-> e, R |-> r, M |-> m, N |-> n,
       SP |-> Positions(o, l)] :
         vs \in {RequiredVars} \cup {RequiredVars \ {v} : v \in RequiredVars},
         i \in 1..MaxEntities, e \in 1..MaxEntities, r \in 1..MaxReceivers,
         m \in 0..MaxMeasurements, n \in 0..MaxSamples,
         o \in 0..(Len(PositionTable) - 1), l \in 0..MaxMeasurements }

\* Data.IR(M, R, N): every sample carries its own flat position, so that a
\* sample taken from the wrong place is a different value
DataIR(c) == NDArray(<<c.M, c.R, c.N>>, [k \in 1..(c.M * c.R * c.N) |-> k])

\* SourcePosition(M, C)
SourcePosition(c) ==
    NDArray(<<Len(c.SP), ComponentCount>>,
            [k \in 1..(Len(c.SP) * ComponentCount) |->
                c.SP[((k - 1) \div ComponentCount) + 1][((k - 1) % ComponentCount) + 1]])

\* Data.SamplingRate(I): one rate per listener, all different
SamplingRate(c) == [i \in 1..c.I |-> 44100 + (i - 1) * 3900]

----------------------------------------------------------------------------
(* sound_field_analysis.io containers *)

TimeSignal(signal, rate) == [signal |-> signal, fs |-> rate]

SphericalGrid(az, colat, radius) == [azimuth |-> az, colatitude |-> colat, radius |-> radius]

\* grid is a reference: the index of the grid object in grids
ArraySignal(signal, grid) == [signal |-> signal, grid |-> grid]

NoSignal == ArraySignal(TimeSignal(NoArray, 0), 0)

\* what np.save writes: the object with its grid
Serialized(obj) == [signal |-> obj.signal, grid |-> grids[obj.grid]]

----------------------------------------------------------------------------
(* Control *)

ProgramCloseFirst ==
    << "open", "print_sp", "print_ir", "print_ear", "close",
       "extract_l", "extract_r", "extract_pos", "extract_fs",
       "convert_az", "convert_colat", "assemble_l", "assemble_r",
       "save_l", "save_r" >>

\* the statements of the code cells, in the order of the notebook
Program ==
    << "open", "print_sp", "print_ir", "print_ear",
       "extract_l", "extract_r", "extract_pos", "extract_fs", "close",
       "convert_az", "convert_colat", "assemble_l", "assemble_r",
       "save_l", "save_r" >>

NextPc(l) ==
    LET i == CHOOSE k \in 1..Len(Program) : Program[k] = l
    IN IF i = Len(Program) THEN "done" ELSE Program[i + 1]

RaiseAndGoOn(l) == NextPc(l)

\* an exception ends the run: no statement of this or a later cell runs
Raise(l) == "failed"

SaveNameSame(suffix) == filename \o "_L" \o ".npy"

\* np.save(filename + suffix, ...) appends .npy
SaveName(suffix) == filename \o suffix \o ".npy"

\* sofa_file[name]: the outcome of looking up a variable
AccessError(name) ==
    IF sofa_file # "open" THEN "RuntimeError"
    ELSE IF name \notin container.vars THEN "IndexError"
    ELSE "none"

Logged(name) == reads \cup {[var |-> name, handle |-> sofa_file]}

data == <<bound, HRIRs_l, HRIRs_r, Az, El, R, fs, azimuth, colatitude,
          grids, hrir_full_l, hrir_full_r, files>>

handle == <<sofa_file, openCount, closeCount>>

Init ==
    /\ container \in Containers \cup {NoFile}
    /\ pc = Program[1]
    /\ error = "none"
    /\ sofa_file = "none"
    /\ openCount = 0
    /\ closeCount = 0
    /\ reads = {}
    /\ bound = {}
    /\ HRIRs_l = NoArray
    /\ HRIRs_r = NoArray
    /\ Az = NoArray
    /\ El = NoArray
    /\ R = NoArray
    /\ fs = 0
    /\ azimuth = NoArray
    /\ colatitude = NoArray
    /\ grids = <<>>
    /\ hrir_full_l = NoSignal
    /\ hrir_full_r = NoSignal
    /\ files = <<>>

\* sofa_file = Dataset(path + filename + '.sofa', 'r', format='NETCDF4')
Open ==
    /\ pc = "open"
    /\ IF container.exists
       THEN /\ sofa_file' = "open"
            /\ openCount' = openCount + 1
            /\ pc' = NextPc(pc)
            /\ UNCHANGED error
       ELSE /\ pc' = Raise(pc)
            /\ error' = "IOError"
            /\ UNCHANGED <<sofa_file, openCount>>
    /\ UNCHANGED <<container, closeCount, reads, data>>

\* a statement that only looks a variable up and prints
Describe(label, name, indexOk) ==
    /\ pc = label
    /\ reads' = Logged(name)
    /\ IF AccessError(name) # "none"
       THEN /\ pc' = Raise(pc)
            /\ error' = AccessError(name)
       ELSE IF ~indexOk
       THEN /\ pc' = Raise(pc)
            /\ error' = "IndexError"
       ELSE /\ pc' = NextPc(pc)
            /\ UNCHANGED error
    /\ UNCHANGED <<container, handle, data>>

\* print('SourcePosition: ' + str(sofa_file['SourcePosition']))
PrintSourcePosition == Describe("print_sp", "SourcePosition", TRUE)

\* print('Data.IR: ' + str(sofa_file['Data.IR']))
PrintDataIR == Describe("print_ir", "Data.IR", TRUE)

\* ... sofa_file['ReceiverPosition'][1, 1] - sofa_file['ReceiverPosition'][0, 1] ...
PrintEarDistance == Describe("print_ear", "ReceiverPosition", 1 < container.R)

\* HRIRs_l = np.squeeze(sofa_file['Data.IR'][:,0,:])
ExtractL ==
    /\ pc = "extract_l"
    /\ reads' = Logged("Data.IR")
    /\ IF AccessError("Data.IR") # "none"
       THEN /\ pc' = Raise(pc)
            /\ error' = AccessError("Data.IR")
            /\ UNCHANGED <<bound, HRIRs_l>>
       ELSE IF ~(LeftReceiver < container.R)
       THEN /\ pc' = Raise(pc)
            /\ error' = "IndexError"
            /\ UNCHANGED <<bound, HRIRs_l>>
       ELSE /\ HRIRs_l' = Squeeze(SliceReceiver(DataIR(container), LeftReceiver))
            /\ bound' = bound \cup {"HRIRs_l"}
            /\ pc' = NextPc(pc)
            /\ UNCHANGED error
    /\ UNCHANGED <<container, handle, HRIRs_r, Az, El, R, fs, azimuth, colatitude,
                   grids, hrir_full_l, hrir_full_r, files>>

\* HRIRs_r = np.squeeze(sofa_file['Data.IR'][:,1,:])
ExtractR ==
    /\ pc = "extract_r"
    /\ reads' = Logged("Data.IR")
    /\ IF AccessError("Data.IR") # "none"
       THEN /\ pc' = Raise(pc)
            /\ error' = AccessError("Data.IR")
            /\ UNCHANGED <<bound, HRIRs_r>>
       ELSE IF ~(RightReceiver < container.R)
       THEN /\ pc' = Raise(pc)
            /\ error' = "IndexError"
            /\ UNCHANGED <<bound, HRIRs_r>>
       ELSE /\ HRIRs_r' = Squeeze(SliceReceiver(DataIR(container), RightReceiver))
            /\ bound' = bound \cup {"HRIRs_r"}
            /\ pc' = NextPc(pc)
            /\ UNCHANGED error
    /\ UNCHANGED <<container, handle, HRIRs_l, Az, El, R, fs, azimuth, colatitude,
                   grids, hrir_full_l, hrir_full_r, files>>

\* Az, El, R = np.squeeze(np.hsplit(sofa_file['SourcePosition'][:], 3))
ExtractPositions ==
    /\ pc = "extract_pos"
    /\ reads' = Logged("SourcePosition")
    /\ IF AccessError("SourcePosition") # "none"
       THEN /\ pc' = Raise(pc)
            /\ error' = AccessError("SourcePosition")
            /\ UNCHANGED <<bound, Az, El, R>>
       ELSE LET a == Squeeze(Stack(HSplit(SourcePosition(container))))
            IN /\ Az' = Row(a, 0)
               /\ El' = Row(a, 1)
               /\ R' = Row(a, 2)
               /\ bound' = bound \cup {"Az", "El", "R"}
               /\ pc' = NextPc(pc)
               /\ UNCHANGED error
    /\ UNCHANGED <<container, handle, HRIRs_l, HRIRs_r, fs, azimuth, colatitude,
                   grids, hrir_full_l, hrir_full_r, files>>

\* fs = sofa_file['Data.SamplingRate'][:][0]
ExtractFs ==
    /\ pc = "extract_fs"
    /\ reads' = Logged("Data.SamplingRate")
    /\ IF AccessError("Data.SamplingRate") # "none"
       THEN /\ pc' = Raise(pc)
            /\ error' = AccessError("Data.SamplingRate")
            /\ UNCHANGED <<bound, fs>>
       ELSE /\ fs' = SamplingRate(container)[1]
            /\ bound' = bound \cup {"fs"}
            /\ pc' = NextPc(pc)
            /\ UNCHANGED error
    /\ UNCHANGED <<container, handle, HRIRs_l, HRIRs_r, Az, El, R, azimuth, colatitude,
                   grids, hrir_full_l, hrir_full_r, files>>

\* sofa_file.close()
Close ==
    /\ pc = "close"
    /\ IF sofa_file = "open"
       THEN /\ sofa_file' = "closed"
            /\ closeCount' = closeCount + 1
            /\ pc' = NextPc(pc)
            /\ UNCHANGED error
       ELSE /\ pc' = Raise(pc)
            /\ error' = "RuntimeError"
            /\ UNCHANGED <<sofa_file, closeCount>>
    /\ UNCHANGED <<container, openCount, reads, data>>

\* azimuth = Az / 180*np.pi
ConvertAzimuth ==
    /\ pc = "convert_az"
    /\ azimuth' = AzimuthOf(Az)
    /\ bound' = bound \cup {"azimuth"}
    /\ pc' = NextPc(pc)
    /\ UNCHANGED <<container, error, handle, reads, HRIRs_l, HRIRs_r, Az, El, R, fs,
                   colatitude, grids, hrir_full_l, hrir_full_r, files>>

\* colatitude = np.pi / 2 - El / 180 * np.pi
ConvertColatitude ==
    /\ pc = "convert_colat"
    /\ colatitude' = ColatitudeOf(El)
    /\ bound' = bound \cup {"colatitude"}
    /\ pc' = NextPc(pc)
    /\ UNCHANGED <<container, error, handle, reads, HRIRs_l, HRIRs_r, Az, El, R, fs,
                   azimuth, grids, hrir_full_l, hrir_full_r, files>>

RightGridSwapped == SphericalGrid(colatitude, azimuth, R)

\* the grid of the second assembly: io.SphericalGrid(azimuth, colatitude, R)
RightGrid == SphericalGrid(azimuth, colatitude, R)

\* hrir_full_l = io.ArraySignal(io.TimeSignal(HRIRs_l, fs),
\*                              io.SphericalGrid(azimuth, colatitude, R))
AssembleL ==
    /\ pc = "assemble_l"
    /\ grids' = Append(grids, SphericalGrid(azimuth, colatitude, R))
    /\ hrir_full_l' = ArraySignal(TimeSignal(HRIRs_l, fs), Len(grids) + 1)
    /\ bound' = bound \cup {"hrir_full_l"}
    /\ pc' = NextPc(pc)
    /\ UNCHANGED <<container, error, handle, reads, HRIRs_l, HRIRs_r, Az, El, R, fs,
                   azimuth, colatitude, hrir_full_r, files>>

\* hrir_full_r = io.ArraySignal(io.TimeSignal(HRIRs_r, fs),
\*                              io.SphericalGrid(azimuth, colatitude, R))
AssembleR ==
    /\ pc = "assemble_r"
    /\ grids' = Append(grids, RightGrid)
    /\ hrir_full_r' = ArraySignal(TimeSignal(HRIRs_r, fs), Len(grids) + 1)
    /\ bound' = bound \cup {"hrir_full_r"}
    /\ pc' = NextPc(pc)
    /\ UNCHANGED <<container, error, handle, reads, HRIRs_l, HRIRs_r, Az, El, R, fs,
                   azimuth, colatitude, hrir_full_l, files>>

\* np.save(name, obj): the file is written whole, or the write raises
Save(label, suffix, obj) ==
    /\ pc = label
    /\ \E written \in BOOLEAN :
          IF written
          THEN /\ files' = (SaveName(suffix) :> Serialized(obj)) @@ files
               /\ pc' = NextPc(pc)
               /\ UNCHANGED error
          ELSE /\ pc' = Raise(pc)
               /\ error' = "IOError"
               /\ UNCHANGED files
    /\ UNCHANGED <<container, handle, reads, bound, HRIRs_l, HRIRs_r, Az, El, R, fs,
                   azimuth, colatitude, grids, hrir_full_l, hrir_full_r>>

\* np.save(filename + '_L', hrir_full_l)
SaveL == Save("save_l", "_L", hrir_full_l)

\* np.save(filename + '_R', hrir_full_r)
SaveR == Save("save_r", "_R", hrir_full_r)

Next ==
    \/ Open
    \/ PrintSourcePosition
    \/ PrintDataIR
    \/ PrintEarDistance
    \/ ExtractL
    \/ ExtractR
    \/ ExtractPositions
    \/ ExtractFs
    \/ Close
    \/ ConvertAzimuth
    \/ ConvertColatitude
    \/ AssembleL
    \/ AssembleR
    \/ SaveL
    \/ SaveR

Spec == Init /\ [][Next]_vars

----------------------------------------------------------------------------
(* Vocabulary of the properties *)

\* the Dimension Set invariant: all variables present, I = E = 1, R >= 2,
\* M >= 1, N >= 1, as many source positions as measurements
Valid(c) ==
    /\ c.exists
    /\ c.vars = RequiredVars
    /\ c.I = 1
    /\ c.E = 1
    /\ c.R >= 2
    /\ c.M >= 1
    /\ c.N >= 1
    /\ Len(c.SP) = c.M

Terminal == pc \in {"done", "failed"}

\* Data.IR[m, r, n], with m and n counted from 1 and r from 0
IRAt(c, m, r, n) == DataIR(c).flat[(m - 1) * c.R * c.N + r * c.N + n]

\* the samples of receiver r, measurement by measurement
ReceiverSamples(c, r) ==
    [k \in 1..(c.M * c.N) |-> IRAt(c, ((k - 1) \div c.N) + 1, r, ((k - 1) % c.N) + 1)]

\* a is the (M, N) matrix of receiver r
IsReceiverMatrix(a, c, r) ==
    /\ a.shape = <<c.M, c.N>>
    /\ \A m \in 1..c.M : \A n \in 1..c.N : a.flat[(m - 1) * c.N + n] = IRAt(c, m, r, n)

\* the statements after sofa_file.close()
AfterClose == {"convert_az", "convert_colat", "assemble_l", "assemble_r",
               "save_l", "save_r", "done"}

ReadByPipeline == {"Data.IR", "SourcePosition", "Data.SamplingRate"}

Derived == {"azimuth", "colatitude", "hrir_full_l", "hrir_full_r"}

----------------------------------------------------------------------------
(* C1 *)

\* C1: in every terminal state of a run, successful or failed, the handle
\* opened at the start is not open any more, and it was closed exactly once.
C1_HandleClosedOnEveryExit ==
    Terminal => /\ sofa_file # "open"
                /\ closeCount = openCount
                /\ closeCount <= 1

----------------------------------------------------------------------------
(* C2 *)

\* C2: for a container that breaks the Dimension Set invariant the run fails,
\* and no extraction, assembly or write step is ever reached: no extracted
\* value is bound and no file is written.
C2_InvalidRejectedBeforeExtraction ==
    (container.exists /\ ~Valid(container)) =>
        /\ pc # "done"
        /\ bound = {}
        /\ DOMAIN files = {}

----------------------------------------------------------------------------
(* C3 *)

\* the receiver indices whose samples an artifact holds
ReceiversIn(artifact) ==
    { ((artifact.signal.signal.flat[k] - 1) \div container.N) % container.R :
         k \in 1..Len(artifact.signal.signal.flat) }

\* C3 as stated: a successful run on a valid container with R receivers
\* leaves exactly R artifacts, one for each receiver index in [0, R).
C3_OneArtifactPerReceiver ==
    (pc = "done" /\ Valid(container)) =>
        /\ Cardinality(DOMAIN files) = container.R
        /\ \A r \in 0..(container.R - 1) :
              \E f \in DOMAIN files : ReceiversIn(files[f]) = {r}

\* C3 as amended: a successful run on a valid container with R >= 2 receivers
\* leaves exactly two artifacts, one for receiver index 0 and one for
\* receiver index 1, whatever R is.
C3_TwoArtifacts ==
    (pc = "done" /\ Valid(container)) =>
        /\ Cardinality(DOMAIN files) = 2
        /\ \A r \in {0, 1} :
              \E f \in DOMAIN files : ReceiversIn(files[f]) = {r}
        /\ \A f \in DOMAIN files : ReceiversIn(files[f]) \in {{0}, {1}}

C3_Witness ==
    /\ pc = "done"
    /\ Valid(container)
    /\ container.R = 3
    /\ Cardinality(DOMAIN files) = 2

----------------------------------------------------------------------------
(* C4 *)

\* C4: for a valid container with Data.IR of shape (M, R, N), the matrix
\* extracted for receiver 0 and the one for receiver 1 have shape exactly
\* (M, N) and entry (m, n) equal to Data.IR[m, r, n], also when M = 1 or N = 1.
C4_ExtractedShapeIsMN ==
    Valid(container) =>
        /\ "HRIRs_l" \in bound => IsReceiverMatrix(HRIRs_l, container, 0)
        /\ "HRIRs_r" \in bound => IsReceiverMatrix(HRIRs_r, container, 1)

----------------------------------------------------------------------------
(* C5 *)

\* num/den * pi is deg * pi / 180
IsRadiansOf(q, deg) == q[2] > 0 /\ q[1] * 180 = deg * q[2]

\* C5: for every measurement i, azimuth is azDeg[i] * pi / 180, colatitude is
\* pi/2 - elDeg[i] * pi / 180 and the radius is the input radius, with no
\* clamping and no wraparound: 360 degrees of azimuth give 2 pi, -90 degrees of
\* elevation give pi, 0 degrees of azimuth give 0 and 90 degrees of elevation
\* give 0; inputs outside [0, 360) and [-90, 90] give outputs outside
\* [0, 2 pi) and [0, pi].
C5_ConversionExact ==
    /\ "R" \in bound =>
          /\ Len(R.flat) = Len(container.SP)
          /\ \A i \in 1..Len(container.SP) : R.flat[i] = container.SP[i][3]
    /\ "azimuth" \in bound =>
          /\ Len(azimuth.flat) = Len(container.SP)
          /\ \A i \in 1..Len(container.SP) :
                LET az == container.SP[i][1]
                    q == azimuth.flat[i]
                IN /\ IsRadiansOf(q, az)
                   /\ az = 360 => q = <<2, 1>>
                   /\ az = 0 => q = <<0, 1>>
                   /\ az >= 360 => q[1] >= 2 * q[2]
                   /\ az < 0 => q[1] < 0
    /\ "colatitude" \in bound =>
          /\ Len(colatitude.flat) = Len(container.SP)
          /\ \A i \in 1..Len(container.SP) :
                LET el == container.SP[i][2]
                    q == colatitude.flat[i]
                IN /\ IsRadiansOf(q, 90 - el)
                   /\ el = -90 => q = <<1, 1>>
                   /\ el = 90 => q = <<0, 1>>
                   /\ el > 90 => q[1] < 0
                   /\ el < -90 => q[1] > q[2]

C5_Witness ==
    /\ "colatitude" \in bound
    /\ \E i \in 1..Len(container.SP) :
          /\ container.SP[i][1] = 360
          /\ container.SP[i][2] = -90
          /\ azimuth.flat[i] = <<2, 1>>
          /\ colatitude.flat[i] = <<1, 1>>
    /\ \E i \in 1..Len(container.SP) :
          /\ container.SP[i][1] < 0
          /\ container.SP[i][2] > 90
          /\ colatitude.flat[i][1] < 0

----------------------------------------------------------------------------
(* C6 *)

\* C6 as stated: in a run the Spherical Grid is constructed exactly once and
\* both Array Signals reference that one grid.
C6_GridConstructedOnce ==
    /\ Len(grids) <= 1
    /\ "hrir_full_r" \in bound => hrir_full_l.grid = hrir_full_r.grid

\* C6 as amended: a Spherical Grid is constructed once for each receiver
\* channel, two in a run, each from the same converted azimuth, colatitude and
\* radius; the two Array Signals reference different grid objects that hold
\* identical values.
C6_GridPerChannelSameValues ==
    /\ Len(grids) = Cardinality(bound \cap {"hrir_full_l", "hrir_full_r"})
    /\ "hrir_full_l" \in bound =>
          grids[hrir_full_l.grid] = SphericalGrid(azimuth, colatitude, R)
    /\ "hrir_full_r" \in bound =>
          /\ hrir_full_l.grid # hrir_full_r.grid
          /\ grids[hrir_full_r.grid] = grids[hrir_full_l.grid]
    /\ \A f \in DOMAIN files : files[f].grid = SphericalGrid(azimuth, colatitude, R)

C6_Witness ==
    /\ pc = "done"
    /\ Valid(container)
    /\ Len(grids) = 2
    /\ hrir_full_l.grid # hrir_full_r.grid
    /\ grids[1] = grids[2]

----------------------------------------------------------------------------
(* C7 *)

\* C7: every access to a container variable happens while the handle is open;
\* the handle is closed once the last needed variable is read, before anything
\* is converted, assembled or written; every conversion, assembly and write
\* step runs with the handle closed and after all reads.
C7_ReadsBeforeClose ==
    /\ \A r \in reads : r.handle = "open"
    /\ pc \in AfterClose =>
          /\ sofa_file = "closed"
          /\ closeCount = 1
          /\ ReadByPipeline \subseteq {r.var : r \in reads}
          /\ {"HRIRs_l", "HRIRs_r", "Az", "El", "R", "fs"} \subseteq bound
    /\ sofa_file # "closed" => (bound \cap Derived = {} /\ DOMAIN files = {})
    /\ pc = "close" => "fs" \in bound

C7_Witness ==
    /\ pc = "done"
    /\ sofa_file = "closed"
    /\ ReadByPipeline \subseteq {r.var : r \in reads}
    /\ Cardinality(DOMAIN files) = 2

----------------------------------------------------------------------------
(* C8 *)

\* C8: the first failure ends the run: after a failure no statement runs (no
\* retry, no later stage, no later write), and the failing step and every
\* other step leave the files written so far in place and unchanged.
C8_AbortAtFirstFailure ==
    /\ [][error = "none"]_vars
    /\ [][error' # "none" => (pc' = "failed" /\ files' = files)]_vars
    /\ [][\A f \in DOMAIN files : f \in DOMAIN files' /\ files'[f] = files[f]]_vars

C8_Witness ==
    /\ pc = "failed"
    /\ error = "IOError"
    /\ DOMAIN files = {"mit_kemar_large_pinna_L.npy"}
    /\ "hrir_full_r" \in bound

----------------------------------------------------------------------------
(* C9 *)

\* the azimuth, colatitude and radius of grid g are sequences of length M,
\* and M is the row count of the matrix
GridMatchesRows(sig, M) ==
    /\ grids[sig.grid].azimuth.shape = <<M>>
    /\ grids[sig.grid].colatitude.shape = <<M>>
    /\ grids[sig.grid].radius.shape = <<M>>
    /\ Len(sig.signal.signal.shape) >= 1
    /\ sig.signal.signal.shape[1] = M

\* C9: in every Array Signal assembled from a valid container with M >= 1
\* measurements, M = 1 included, the grid's azimuth, colatitude and radius are
\* sequences of length M and M is the row count of the signal's matrix.
C9_GridLengthsMatchRows ==
    Valid(container) =>
        /\ "hrir_full_l" \in bound => GridMatchesRows(hrir_full_l, container.M)
        /\ "hrir_full_r" \in bound => GridMatchesRows(hrir_full_r, container.M)

----------------------------------------------------------------------------
(* C10 *)

\* the artifact holds the samples of receiver r in order, and the first
\* sampling rate of the container
HoldsChannel(artifact, r) ==
    /\ artifact.signal.signal.flat = ReceiverSamples(container, r)
    /\ artifact.signal.fs = SamplingRate(container)[1]

\* C10: the file with suffix _L holds the matrix of receiver index 0 and the
\* file with suffix _R the matrix of receiver index 1, each with the first
\* element of Data.SamplingRate; the two names differ, so that after a
\* successful run both files exist and neither write replaced the other.
C10_ChannelsNotCrossWired ==
    /\ DOMAIN files \subseteq {"mit_kemar_large_pinna_L.npy", "mit_kemar_large_pinna_R.npy"}
    /\ "mit_kemar_large_pinna_L.npy" \in DOMAIN files =>
          /\ HoldsChannel(files["mit_kemar_large_pinna_L.npy"], 0)
          /\ files["mit_kemar_large_pinna_L.npy"].signal.signal = HRIRs_l
    /\ "mit_kemar_large_pinna_R.npy" \in DOMAIN files =>
          /\ HoldsChannel(files["mit_kemar_large_pinna_R.npy"], 1)
          /\ files["mit_kemar_large_pinna_R.npy"].signal.signal = HRIRs_r
    /\ pc = "done" =>
          DOMAIN files = {"mit_kemar_large_pinna_L.npy", "mit_kemar_large_pinna_R.npy"}

C10_Witness ==
    /\ pc = "done"
    /\ container.I = 2
    /\ container.M >= 2
    /\ container.N >= 2
    /\ files["mit_kemar_large_pinna_L.npy"].signal.signal.flat
          # files["mit_kemar_large_pinna_R.npy"].signal.signal.flat
    /\ files["mit_kemar_large_pinna_R.npy"].signal.fs = 44100

====
